---- MODULE Spec2Model ----
(***************************************************************************)
(* Model of protocol/protocol.go of rtldavis: the hop sequencer (NextHop,  *)
(* RandHop, hop), the frequency tracker (currentFreqErr, channelFreqErr),  *)
(* the packet decoder (Parse, NewMessage) and SwapBitOrder.                *)
(*                                                                         *)
(* Go slices are 0-indexed, TLA+ sequences are 1-indexed: At(s, i) reads   *)
(* element i of a Go slice.  Discriminator samples are kept as integers    *)
(* in units of 2*pi/SampleRate radians, so that mean*SampleRate/(2*pi) of  *)
(* the code is the plain mean of the modelled samples; the float64         *)
(* arithmetic of the code is modelled as exact rational arithmetic and the *)
(* float-to-int conversion as truncation toward zero.                      *)
(***************************************************************************)
EXTENDS Integers, Sequences, FiniteSets, TLC

(***************************************************************************)
(* Bounds of the model.                                                    *)
(***************************************************************************)
\* Largest number of packets in one batch handed to Parse.
MaxBatch == 2
\* Largest number of calls (NextHop, RandHop, Parse) in one behaviour of Spec.
MaxCalls == 4
\* Largest number of calls in one behaviour of SpecBatch.
MaxBatchCalls == 2

\* Largest transmitter identifier a parser is built for in SpecDwell.
MaxID == 3

\* Largest number of Parse calls in SpecSensor.
MaxSensorCalls == 1

(***************************************************************************)
(* Byte and word arithmetic.                                               *)
(***************************************************************************)
At(s, i) == s[i + 1]

\* F applied to the value of x, with x evaluated once.
With(x, F(_)) == CHOOSE r \in { F(v) : v \in {x} } : TRUE

RECURSIVE BitAnd(_, _)
BitAnd(a, b) ==
    IF a = 0 \/ b = 0 THEN 0
    ELSE 2 * BitAnd(a \div 2, b \div 2) + (IF a % 2 = 1 /\ b % 2 = 1 THEN 1 ELSE 0)

RECURSIVE BitOr(_, _)
BitOr(a, b) ==
    IF a = 0 THEN b
    ELSE IF b = 0 THEN a
    ELSE 2 * BitOr(a \div 2, b \div 2) + (IF a % 2 = 1 \/ b % 2 = 1 THEN 1 ELSE 0)

RECURSIVE BitXor(_, _)
BitXor(a, b) ==
    IF a = 0 THEN b
    ELSE IF b = 0 THEN a
    ELSE 2 * BitXor(a \div 2, b \div 2) + (IF a % 2 # b % 2 THEN 1 ELSE 0)

RECURSIVE Pow2(_)
Pow2(n) == IF n = 0 THEN 1 ELSE 2 * Pow2(n - 1)

\* b >> n
Shr(b, n) == b \div Pow2(n)
\* b << n on a byte (8 bits are kept)
Shl8(b, n) == (b * Pow2(n)) % 256
\* b << n on a uint16 (16 bits are kept)
Shl16(b, n) == (b * Pow2(n)) % 65536

(***************************************************************************)
(* SwapBitOrder: three masked swaps (nibbles, pairs, single bits).         *)
(***************************************************************************)
\* A swap that leaves out the last (single bit) step.
SwapBitOrderNoBitStep(b) ==
    LET b1 == BitOr(Shr(BitAnd(b, 240), 4), Shl8(BitAnd(b, 15), 4))
        b2 == BitOr(Shr(BitAnd(b1, 204), 2), Shl8(BitAnd(b1, 51), 2))
    IN  b2

SwapBitOrder(b) ==
    LET b1 == BitOr(Shr(BitAnd(b, 240), 4), Shl8(BitAnd(b, 15), 4))
        b2 == BitOr(Shr(BitAnd(b1, 204), 2), Shl8(BitAnd(b1, 51), 2))
        b3 == BitOr(Shr(BitAnd(b2, 170), 1), Shl8(BitAnd(b2, 85), 1))
    IN  b3

\* SwapBitOrder tabulated over the bytes (evaluated once).
SwapTable == [b \in 0..255 |-> SwapBitOrder(b)]

(***************************************************************************)
(* The checksum: CRC "CCITT-16", init 0, polynomial 0x1021, residue 0,     *)
(* table driven, one table lookup per byte.                                *)
(***************************************************************************)
crcInit == 0
crcPoly == 4129

RECURSIVE crcTableEntry(_, _)
crcTableEntry(crc, bIdx) ==
    IF bIdx = 8 THEN crc
    ELSE crcTableEntry(IF BitAnd(crc, 32768) # 0
                       THEN BitXor(Shl16(crc, 1), crcPoly)
                       ELSE Shl16(crc, 1),
                       bIdx + 1)

crcTable == [tIdx \in 0..255 |-> crcTableEntry(Shl16(tIdx, 8), 0)]

RECURSIVE crcLoop(_, _, _)
crcLoop(crc, data, k) ==
    IF k > Len(data) THEN crc
    ELSE crcLoop(BitXor(Shl16(crc, 8), crcTable[BitXor(Shr(crc, 8), data[k])]),
                 data, k + 1)

Checksum(data) == crcLoop(crcInit, data, 1)

(***************************************************************************)
(* Packet configuration (NewPacketConfig) and the fixed tables NewParser   *)
(* builds.                                                                 *)
(***************************************************************************)
SymbolLength == 14

channels ==
    << 867500000, 867625000, 867750000, 867875000,
       868000000, 868125000, 868250000, 868375000, 868500000 >>

channelCount == Len(channels)

hopPattern == << 0, 4, 8, 1, 5, 3, 6, 2, 7 >>

\* The empty map of make(map[int]int).
EmptyMap == [c \in {} |-> 0]

(***************************************************************************)
(* Inputs: packets as the demodulator hands them over (80 symbols, that is *)
(* 10 bytes: a 2 byte prefix, 6 bytes of data, 2 bytes of CRC, in over the *)
(* air bit order) and the discriminator trace.                             *)
(***************************************************************************)
\* Bit reversed: CB 89 | 83 0C C8 00 00 00 | A7 8C  (CRC is zero)
RawA == << 211, 145, 193, 48, 19, 0, 0, 0, 229, 49 >>
\* Bit reversed: CB 89 | F5 07 5A 01 02 03 | C9 C8  (CRC is zero)
RawB == << 211, 145, 175, 224, 90, 128, 64, 192, 147, 19 >>
\* RawA with one bit of the CRC field flipped (CRC is not zero)
RawC == << 211, 145, 193, 48, 19, 0, 0, 0, 229, 177 >>

PacketPool ==
    { [Idx |-> 0,  Data |-> RawA],
      [Idx |-> 14, Data |-> RawA],
      [Idx |-> 14, Data |-> RawB],
      [Idx |-> 0,  Data |-> RawC],
      [Idx |-> 28, Data |-> RawB] }

\* Every batch of at most MaxBatch packets.
Batches == UNION { [1..n -> PacketPool] : n \in 0..MaxBatch }

\* The empty batch and the batches of one packet: one that decodes at
\* sample index 0, one that decodes at 14, one with a bad checksum.
ShortBatches ==
    { << >>,
      << [Idx |-> 0,  Data |-> RawA] >>,
      << [Idx |-> 14, Data |-> RawB] >>,
      << [Idx |-> 0,  Data |-> RawC] >> }

\* p.Demodulator.Discriminated: 350 samples (length and capacity), a step
\* from -9500 to -9700 at sample 200.  It covers the tail of a packet at
\* sample index 0 or 14 and is too short for one at sample index 28.
Discriminated == [i \in 1..350 |-> IF i <= 200 THEN -9500 ELSE -9700]

(***************************************************************************)
(* State.                                                                  *)
(***************************************************************************)
VARIABLES
    hopIdx,          \* p.hopIdx
    currentFreqErr,  \* p.currentFreqErr
    channelFreqErr,  \* p.channelFreqErr: a function on the keys present
    ret,             \* the call that has just returned, with its arguments,
                     \* the state it started from and its results
    calls,           \* number of calls made so far
    stamp,           \* per channel: running error before the last batch that
                     \* updated it plus the errors measured in that batch
    run,             \* channel indices returned by the NextHop calls since
                     \* the last RandHop (or NewParser), and where they began
    sw,              \* SwapBitOrder applied to one byte, see SpecSwap
    ID,              \* p.ID
    DwellTime,       \* p.DwellTime, a time.Duration: nanoseconds
    earlier,         \* the bit reversed payloads decoded by the Parse calls
                     \* the caller has taken the result of
    shown            \* Sensor.String applied to one code, see SpecSensor

vars ==
    << hopIdx, currentFreqErr, channelFreqErr, ret, calls, stamp, run, sw,
       ID, DwellTime, earlier, shown >>

NoHop == [ChannelIdx |-> 0, ChannelFreq |-> 0, FreqError |-> 0]

Idle ==
    [op |-> "idle", hop |-> NoHop, preIdx |-> 0, preCur |-> 0,
     preCfe |-> EmptyMap, pkts |-> << >>, out |-> << >>,
     msgs |-> << >>, updates |-> 0, panicked |-> FALSE]

NoSwap == [b |-> 0, n |-> 0, out |-> 0]

NoShown == [s |-> 0, done |-> FALSE, text |-> ""]

(***************************************************************************)
(* NewParser.                                                              *)
(***************************************************************************)
\* Intn with an inclusive upper limit.
IntnInclusive(n) == 0..n

\* The values rand.Intn(n) can return.
Intn(n) == 0..(n - 1)

\* time.Microsecond, in the nanoseconds a time.Duration counts.
Microsecond == 1000

\* A dwell time without the base of 3000 microseconds.
DwellTimeOfNoBase(id) == id * 62500 * Microsecond

\* The dwell time NewParser computes for the identifier id.
DwellTimeOf(id) == 3000 * Microsecond + id * 62500 * Microsecond

\* The parser NewParser(symbolLength, id) returns.
NewParser(id) ==
    /\ hopIdx \in Intn(channelCount)
    /\ currentFreqErr = 0
    /\ channelFreqErr = EmptyMap
    /\ ID = id
    /\ DwellTime = DwellTimeOf(id)

\* No call made yet.
NoCalls ==
    /\ ret = Idle
    /\ calls = 0
    /\ stamp = EmptyMap
    /\ run = [start |-> hopIdx, chans |-> << >>]
    /\ earlier = {}

\* A new parser for the transmitter with identifier 0.
Init ==
    /\ NewParser(0)
    /\ NoCalls
    /\ sw = NoSwap
    /\ shown = NoShown

(***************************************************************************)
(* hop, NextHop, RandHop.                                                  *)
(***************************************************************************)
\* A hop that never looks at the channel's recorded error.
hopNoRecall(idx, cur, cfe) ==
    [h |-> [ChannelIdx |-> At(hopPattern, idx),
            ChannelFreq |-> At(channels, At(hopPattern, idx)),
            FreqError |-> cur],
     cur |-> cur]

\* A hop that reports the channel's recorded error without making it the
\* running error.
hopReportOnly(idx, cur, cfe) ==
    [h |-> [ChannelIdx |-> At(hopPattern, idx),
            ChannelFreq |-> At(channels, At(hopPattern, idx)),
            FreqError |-> IF At(hopPattern, idx) \in DOMAIN cfe
                          THEN cfe[At(hopPattern, idx)]
                          ELSE cur],
     cur |-> cur]

\* The descriptor hop returns and the value it leaves in currentFreqErr.
hop(idx, cur, cfe) ==
    LET ChannelIdx == At(hopPattern, idx)
        newCur == IF At(hopPattern, idx) \in DOMAIN cfe
                  THEN cfe[At(hopPattern, idx)]
                  ELSE cur
    IN  [h |-> [ChannelIdx |-> ChannelIdx,
                ChannelFreq |-> At(channels, ChannelIdx),
                FreqError |-> newCur],
         cur |-> newCur]

\* An increment that skips one position.
NextHopIdxSkip(idx) == (idx + 2) % channelCount

NextHopIdx(idx) == (idx + 1) % channelCount

HopTo(op, idx) ==
    LET r == hop(idx, currentFreqErr, channelFreqErr)
    IN  /\ hopIdx' = idx
        /\ currentFreqErr' = r.cur
        /\ ret' = [Idle EXCEPT !.op = op, !.hop = r.h, !.preIdx = hopIdx,
                               !.preCur = currentFreqErr,
                               !.preCfe = channelFreqErr]
        /\ UNCHANGED << channelFreqErr, stamp, sw, ID, DwellTime, earlier,
                        shown >>

CallNextHop ==
    /\ ret.op = "idle"
    /\ HopTo("NextHop", NextHopIdx(hopIdx))

CallRandHop ==
    /\ ret.op = "idle"
    /\ \E idx \in Intn(channelCount) : HopTo("RandHop", idx)

(***************************************************************************)
(* Parse.                                                                  *)
(***************************************************************************)
\* The payload after the in-place bit reversal of every byte.
Reversed(data) == [k \in 1..Len(data) |-> SwapTable[data[k]]]

\* Checksum of pkt.Data[2:] tabulated over the bit reversed payloads of the
\* packets of the model (evaluated once).
ChecksumTable ==
    [data \in { Reversed(p.Data) : p \in PacketPool } |->
        Checksum(SubSeq(data, 3, Len(data)))]

\* Go's s[lower:upper] on a slice of length and capacity n.
SliceOk(n, lower, upper) == 0 <= lower /\ lower <= upper /\ upper <= n

\* The sum of trace[lower:upper], added up by halves.
RECURSIVE SumSamples(_, _, _)
SumSamples(trace, lower, upper) ==
    IF lower >= upper THEN 0
    ELSE IF upper = lower + 1 THEN At(trace, lower)
    ELSE LET mid == (lower + upper) \div 2
         IN  SumSamples(trace, lower, mid) + SumSamples(trace, mid, upper)

\* int(x) of Go for the rational x = num/den, den > 0: toward zero.
TruncDiv(num, den) ==
    IF num >= 0 THEN num \div den ELSE -((-num) \div den)

\* A measurement with the sign of the result left out.
FreqErrorNotNegated(trace, Idx) ==
    LET lower == Idx + 8 * SymbolLength
        upper == Idx + 24 * SymbolLength
    IN  TruncDiv(9600 * (upper - lower) + SumSamples(trace, lower, upper),
                 upper - lower)

\* freqError of a packet at sample index Idx: minus the truncated sum of
\* 9600 and the mean of the tail samples.
FreqError(trace, Idx) ==
    LET lower == Idx + 8 * SymbolLength
        upper == Idx + 24 * SymbolLength
        n == upper - lower
    IN  -TruncDiv(9600 * n + SumSamples(trace, lower, upper), n)

\* FreqError tabulated over the sample indices of the model (evaluated
\* once); 0 where the slice expression panics.
FreqErrorTable ==
    [Idx \in { p.Idx : p \in PacketPool } |->
        IF SliceOk(Len(Discriminated), Idx + 8 * SymbolLength,
                   Idx + 24 * SymbolLength)
        THEN FreqError(Discriminated, Idx)
        ELSE 0]

\* A message with the two halves of the first byte exchanged.
NewMessageNibblesSwapped(pkt) ==
    LET Data == SubSeq(pkt.Data, 3, Len(pkt.Data))
    IN  [Idx |-> pkt.Idx,
         Data |-> Data,
         ID |-> Shr(At(Data, 0), 4),
         Sensor |-> BitAnd(At(Data, 0), 15),
         WindSpeed |-> At(Data, 1),
         WindDirection |-> At(Data, 2)]

\* The message of a packet whose payload has been bit reversed.
NewMessage(pkt) ==
    LET Data == SubSeq(pkt.Data, 3, Len(pkt.Data))
    IN  [Idx |-> pkt.Idx,
         Data |-> Data,
         ID |-> BitAnd(At(Data, 0), 15),
         Sensor |-> Shr(At(Data, 0), 4),
         WindSpeed |-> At(Data, 1),
         WindDirection |-> At(Data, 2)]

\* An update that leaves currentFreqErr as it was.
TrackerUpdateEntryOnly(st, ch, freqError) ==
    [st EXCEPT
        !.cfe = [c \in DOMAIN st.cfe \cup {ch} |->
                    IF c = ch THEN st.cur + freqError ELSE st.cfe[c]],
        !.updates = st.updates + 1]

\* An update that stores the measured error alone in the channel's entry.
TrackerUpdateNoCarry(st, ch, freqError) ==
    [st EXCEPT
        !.cfe = [c \in DOMAIN st.cfe \cup {ch} |->
                    IF c = ch THEN freqError ELSE st.cfe[c]],
        !.cur = st.cur + freqError,
        !.updates = st.updates + 1]

\* An update keyed by the carrier frequency instead of the channel index.
TrackerUpdateByFreq(st, ch, freqError) ==
    [st EXCEPT
        !.cfe = [c \in DOMAIN st.cfe \cup {At(channels, ch)} |->
                    IF c = At(channels, ch) THEN st.cur + freqError
                    ELSE st.cfe[c]],
        !.cur = st.cur + freqError,
        !.updates = st.updates + 1]

\* An update that makes a new map with the current channel's entry alone.
TrackerUpdateForgetOthers(st, ch, freqError) ==
    [st EXCEPT
        !.cfe = [c \in {ch} |-> st.cur + freqError],
        !.cur = st.cur + freqError,
        !.updates = st.updates + 1]

\* An update that moves on to the next channel of the list with every
\* packet decoded in the batch.
TrackerUpdateAdvancing(st, ch, freqError) ==
    [st EXCEPT
        !.cfe = [c \in DOMAIN st.cfe \cup {(ch + st.updates) % channelCount} |->
                    IF c = (ch + st.updates) % channelCount
                    THEN st.cur + freqError ELSE st.cfe[c]],
        !.cur = st.cur + freqError,
        !.updates = st.updates + 1]

\* The two assignments that record a measured error.
TrackerUpdate(st, ch, freqError) ==
    [st EXCEPT
        !.cfe = [c \in DOMAIN st.cfe \cup {ch} |->
                    IF c = ch THEN st.cur + freqError ELSE st.cfe[c]],
        !.cur = st.cur + freqError,
        !.updates = st.updates + 1]

\* A gate that lets a repeated payload through.
PassesGatesNoDedup(seen, data) ==
    ChecksumTable[data] = 0

\* A gate that does not look at the checksum.
PassesGatesNoChecksum(seen, data) ==
    data \notin seen

\* The two silent-discard gates on a bit reversed payload.
PassesGates(seen, data) ==
    /\ data \notin seen
    /\ ChecksumTable[data] = 0

\* A result list that grows at the front.
AppendMsgAtFront(msgs, m) == << m >> \o msgs

\* msgs = append(msgs, m)
AppendMsg(msgs, m) == Append(msgs, m)

\* The errors measured for the packets of a list of messages, added up.
RECURSIVE MsgErrSum(_)
MsgErrSum(msgs) ==
    IF msgs = << >> THEN 0
    ELSE FreqErrorTable[Head(msgs).Idx] + MsgErrSum(Tail(msgs))

\* An iteration that reverses the bits of a packet only when it decodes it.
ParsePacketKeepDropped(st, pkt, ch) ==
    With(Reversed(pkt.Data), LAMBDA data :
        LET rev == [Idx |-> pkt.Idx, Data |-> data]
            st1 == [st EXCEPT !.out = Append(@, rev),
                              !.seen = @ \cup {data}]
            lower == pkt.Idx + 8 * SymbolLength
            upper == pkt.Idx + 24 * SymbolLength
        IN  IF ~PassesGates(st.seen, data)
            THEN [st1 EXCEPT !.out = Append(st.out, pkt)]
            ELSE IF ~SliceOk(Len(Discriminated), lower, upper)
                 THEN [st1 EXCEPT !.panicked = TRUE]
            ELSE [TrackerUpdate(st1, ch, FreqErrorTable[pkt.Idx])
                    EXCEPT !.msgs = AppendMsg(@, NewMessage(rev))])

\* An iteration that discards a packet whose tail window is outside the
\* trace and goes on with the next one.
ParsePacketSkipShortTail(st, pkt, ch) ==
    With(Reversed(pkt.Data), LAMBDA data :
        LET rev == [Idx |-> pkt.Idx, Data |-> data]
            st1 == [st EXCEPT !.out = Append(@, rev),
                              !.seen = @ \cup {data}]
            lower == pkt.Idx + 8 * SymbolLength
            upper == pkt.Idx + 24 * SymbolLength
        IN  IF ~PassesGates(st.seen, data) THEN st1
            ELSE IF ~SliceOk(Len(Discriminated), lower, upper) THEN st1
            ELSE [TrackerUpdate(st1, ch, FreqErrorTable[pkt.Idx])
                    EXCEPT !.msgs = AppendMsg(@, NewMessage(rev))])

\* An iteration that gives up on the whole batch at a packet it discards.
ParsePacketAbortOnDrop(st, pkt, ch) ==
    With(Reversed(pkt.Data), LAMBDA data :
        LET rev == [Idx |-> pkt.Idx, Data |-> data]
            st1 == [st EXCEPT !.out = Append(@, rev),
                              !.seen = @ \cup {data}]
            lower == pkt.Idx + 8 * SymbolLength
            upper == pkt.Idx + 24 * SymbolLength
        IN  IF ~PassesGates(st.seen, data)
            THEN [st1 EXCEPT !.panicked = TRUE]
            ELSE IF ~SliceOk(Len(Discriminated), lower, upper)
                 THEN [st1 EXCEPT !.panicked = TRUE]
            ELSE [TrackerUpdate(st1, ch, FreqErrorTable[pkt.Idx])
                    EXCEPT !.msgs = AppendMsg(@, NewMessage(rev))])

\* One iteration of the loop over the packets.  st holds the locals and the
\* fields the loop works on: seen, msgs, currentFreqErr (cur), channelFreqErr
\* (cfe), the packets as they are in memory afterwards (out), the number of
\* tracker updates made and whether the slice expression has panicked.
ParsePacket(st, pkt, ch) ==
    With(Reversed(pkt.Data), LAMBDA data :
        LET rev == [Idx |-> pkt.Idx, Data |-> data]
            st1 == [st EXCEPT !.out = Append(@, rev),
                              !.seen = @ \cup {data}]
            lower == pkt.Idx + 8 * SymbolLength
            upper == pkt.Idx + 24 * SymbolLength
        IN  IF ~PassesGates(st.seen, data) THEN st1
            ELSE IF ~SliceOk(Len(Discriminated), lower, upper)
                 THEN [st1 EXCEPT !.panicked = TRUE]
            ELSE [TrackerUpdate(st1, ch, FreqErrorTable[pkt.Idx])
                    EXCEPT !.msgs = AppendMsg(@, NewMessage(rev))])

\* The loop from packet i on; a panic leaves the rest of the batch untouched.
RECURSIVE ParseLoop(_, _, _, _)
ParseLoop(st, pkts, i, ch) ==
    IF i > Len(pkts) THEN st
    ELSE IF st.panicked
         THEN [st EXCEPT !.out = @ \o SubSeq(pkts, i, Len(pkts))]
    ELSE With(ParsePacket(st, pkts[i], ch), LAMBDA next :
            ParseLoop(next, pkts, i + 1, ch))

\* A seen set that still holds the payloads decoded by earlier calls.
SeenKept(before) == before

\* seen := make(map[string]bool): the seen set a call starts with, whatever
\* earlier calls have decoded.
SeenAtCall(before) == {}

CallParse(BatchSet) ==
    /\ ret.op = "idle"
    /\ \E pkts \in BatchSet :
        LET ch == At(hopPattern, hopIdx)
            st0 == [seen |-> SeenAtCall(earlier), msgs |-> << >>,
                    cur |-> currentFreqErr,
                    cfe |-> channelFreqErr, out |-> << >>, updates |-> 0,
                    panicked |-> FALSE]
        IN  \E st \in { ParseLoop(st0, pkts, 1, ch) } :
            /\ currentFreqErr' = st.cur
            /\ channelFreqErr' = st.cfe
            /\ ret' = [Idle EXCEPT !.op = "Parse", !.preIdx = hopIdx,
                                   !.preCur = currentFreqErr,
                                   !.preCfe = channelFreqErr,
                                   !.pkts = pkts,
                                   !.out = st.out,
                                   !.msgs = IF st.panicked THEN << >> ELSE st.msgs,
                                   !.updates = st.updates,
                                   !.panicked = st.panicked]
            /\ stamp' = IF st.msgs # << >>
                        THEN [c \in DOMAIN stamp \cup {ch} |->
                                IF c = ch
                                THEN currentFreqErr + MsgErrSum(st.msgs)
                                ELSE stamp[c]]
                        ELSE stamp
    /\ UNCHANGED << hopIdx, sw, ID, DwellTime, earlier, shown >>

(***************************************************************************)
(* The caller takes the result of the call that returned; a call that has  *)
(* panicked has no caller to return to.                                    *)
(***************************************************************************)
Return ==
    /\ ret.op # "idle"
    /\ ~ret.panicked
    /\ ret' = Idle
    /\ earlier' = earlier \cup { ret.out[i].Data : i \in
                        { j \in DOMAIN ret.out :
                            ChecksumTable[ret.out[j].Data] = 0 } }
    /\ UNCHANGED << hopIdx, currentFreqErr, channelFreqErr, calls, stamp,
                    run, sw, ID, DwellTime, shown >>

(***************************************************************************)
(* Spec: any sequence of at most MaxCalls calls on a new parser, with      *)
(* batches of at most one packet.                                          *)
(***************************************************************************)
Counted(max) ==
    /\ calls < max
    /\ calls' = calls + 1
    /\ UNCHANGED run

NextHop == CallNextHop /\ Counted(MaxCalls)

RandHop == CallRandHop /\ Counted(MaxCalls)

Parse == CallParse(ShortBatches) /\ Counted(MaxCalls)

Next == NextHop \/ RandHop \/ Parse \/ Return

Spec == Init /\ [][Next]_vars

(***************************************************************************)
(* SpecBatch: any sequence of at most MaxBatchCalls calls on a new parser, *)
(* with every batch of at most MaxBatch packets.                           *)
(***************************************************************************)
BatchNextHop == CallNextHop /\ Counted(MaxBatchCalls)

BatchRandHop == CallRandHop /\ Counted(MaxBatchCalls)

BatchParse == CallParse(Batches) /\ Counted(MaxBatchCalls)

NextBatch == BatchNextHop \/ BatchRandHop \/ BatchParse \/ Return

SpecBatch == Init /\ [][NextBatch]_vars

(***************************************************************************)
(* SpecCycle: hop calls only, with the channels the NextHop calls return   *)
(* recorded in run.                                                        *)
(***************************************************************************)
CycleNextHop ==
    /\ CallNextHop
    /\ run' = IF Len(run.chans) = 2 * channelCount
              THEN [start |-> hopIdx, chans |-> << ret'.hop.ChannelIdx >>]
              ELSE [run EXCEPT !.chans = Append(@, ret'.hop.ChannelIdx)]
    /\ UNCHANGED calls

CycleRandHop ==
    /\ CallRandHop
    /\ run' = [start |-> hopIdx', chans |-> << >>]
    /\ UNCHANGED calls

NextCycle == CycleNextHop \/ CycleRandHop \/ Return

SpecCycle == Init /\ [][NextCycle]_vars

(***************************************************************************)
(* SpecSwap: SwapBitOrder applied to a byte, and to its result.            *)
(***************************************************************************)
InitSwap ==
    /\ NewParser(0)
    /\ NoCalls
    /\ \E b \in 0..255 : sw = [b |-> b, n |-> 0, out |-> b]
    /\ shown = NoShown

Swap ==
    /\ sw.n < 2
    /\ sw' = [sw EXCEPT !.n = @ + 1, !.out = SwapBitOrder(@)]
    /\ UNCHANGED << hopIdx, currentFreqErr, channelFreqErr, ret, calls,
                    stamp, run, ID, DwellTime, earlier, shown >>

NextSwap == Swap

SpecSwap == InitSwap /\ [][NextSwap]_vars

(***************************************************************************)
(* SpecDwell: any sequence of at most MaxBatchCalls calls, with batches of *)
(* at most one packet, on a new parser for any identifier up to MaxID.     *)
(***************************************************************************)
InitDwell ==
    /\ \E id \in 0..MaxID : NewParser(id)
    /\ NoCalls
    /\ sw = NoSwap
    /\ shown = NoShown

DwellParse == CallParse(ShortBatches) /\ Counted(MaxBatchCalls)

NextDwell == BatchNextHop \/ BatchRandHop \/ DwellParse \/ Return

SpecDwell == InitDwell /\ [][NextDwell]_vars

(***************************************************************************)
(* Sensor and its String method.                                           *)
(***************************************************************************)
SuperCapVoltage == 2
UVIndex == 4
RainRate == 5
SolarRadiation == 6
Light == 7
Temperature == 8
WindGustSpeed == 9
Humidity == 10
Rain == 14

HexDigits ==
    << "0", "1", "2", "3", "4", "5", "6", "7",
       "8", "9", "A", "B", "C", "D", "E", "F" >>

\* What the verb %0X of fmt prints for a byte: upper case hexadecimal, as
\* many digits as the value needs (the flag 0 pads to a width, and no width
\* is given).
RECURSIVE FormatHex(_)
FormatHex(n) ==
    IF n < 16 THEN At(HexDigits, n)
    ELSE FormatHex(n \div 16) \o At(HexDigits, n % 16)

\* A String method without the case of Rain.
StringNoRain(s) ==
    CASE s = SuperCapVoltage -> "SuperCap Voltage"
      [] s = UVIndex -> "UV Index"
      [] s = RainRate -> "Rain Rate"
      [] s = SolarRadiation -> "Solar Radiation"
      [] s = Light -> "Light"
      [] s = Temperature -> "Temperature"
      [] s = WindGustSpeed -> "Wind Gust Speed"
      [] s = Humidity -> "Humidity"
      [] OTHER -> "Unknown(0x" \o FormatHex(s) \o ")"

\* func (s Sensor) String() string
String(s) ==
    CASE s = SuperCapVoltage -> "SuperCap Voltage"
      [] s = UVIndex -> "UV Index"
      [] s = RainRate -> "Rain Rate"
      [] s = SolarRadiation -> "Solar Radiation"
      [] s = Light -> "Light"
      [] s = Temperature -> "Temperature"
      [] s = WindGustSpeed -> "Wind Gust Speed"
      [] s = Humidity -> "Humidity"
      [] s = Rain -> "Rain"
      [] OTHER -> "Unknown(0x" \o FormatHex(s) \o ")"

(***************************************************************************)
(* SpecSensor: String applied to any value of the byte type Sensor, next   *)
(* to at most MaxSensorCalls Parse calls with batches of at most one       *)
(* packet.                                                                 *)
(***************************************************************************)
InitSensor ==
    /\ NewParser(0)
    /\ NoCalls
    /\ sw = NoSwap
    /\ \E s \in 0..255 : shown = [s |-> s, done |-> FALSE, text |-> ""]

SensorString ==
    /\ ~shown.done
    /\ shown' = [shown EXCEPT !.done = TRUE, !.text = String(shown.s)]
    /\ UNCHANGED << hopIdx, currentFreqErr, channelFreqErr, ret, calls,
                    stamp, run, sw, ID, DwellTime, earlier >>

SensorParse == CallParse(ShortBatches) /\ Counted(MaxSensorCalls)

NextSensor == SensorString \/ SensorParse \/ Return

SpecSensor == InitSensor /\ [][NextSensor]_vars

(***************************************************************************)
(* Definitions the properties are stated with.  The bit reversal and the   *)
(* gates are restated here from their meaning, not from the code.          *)
(***************************************************************************)
Bit(b, i) == (b \div Pow2(i)) % 2

\* b with bit 7 and 0, 6 and 1, 5 and 2, 4 and 3 exchanged.
MirrorBits(b) ==
    Bit(b, 0) * 128 + Bit(b, 1) * 64 + Bit(b, 2) * 32 + Bit(b, 3) * 16
    + Bit(b, 4) * 8 + Bit(b, 5) * 4 + Bit(b, 6) * 2 + Bit(b, 7)

MirrorTable == [b \in 0..255 |-> MirrorBits(b)]

Mirrored(data) == [k \in 1..Len(data) |-> MirrorTable[data[k]]]

CrcOfMirrored ==
    [data \in { Mirrored(p.Data) : p \in PacketPool } |->
        Checksum(SubSeq(data, 3, Len(data)))]

ParseReturned == ret.op = "Parse" /\ ~ret.panicked

HopReturned == ret.op \in {"NextHop", "RandHop"}

\* Mirrored tabulated over the payloads of the model (evaluated once).
MirroredTable == [data \in { p.Data : p \in PacketPool } |-> Mirrored(data)]

\* The bit reversed payload of packet i of the batch.
Payload(i) == MirroredTable[ret.pkts[i].Data]

FirstOccurrence(i) == \A j \in 1..(i - 1) : Payload(j) # Payload(i)

ChecksumZero(i) == CrcOfMirrored[Payload(i)] = 0

\* The packets of the batch that pass both gates.
Decodable == { i \in DOMAIN ret.pkts : FirstOccurrence(i) /\ ChecksumZero(i) }

\* Message m carries the sample index and the stripped payload of packet i.
ComesFrom(m, i) ==
    /\ m.Idx = ret.pkts[i].Idx
    /\ m.Data = SubSeq(Payload(i), 3, Len(Payload(i)))

\* The errors measured for a set of packets of the batch, added up.
RECURSIVE ErrSum(_)
ErrSum(S) ==
    IF S = {} THEN 0
    ELSE LET i == CHOOSE x \in S : TRUE
         IN  FreqErrorTable[ret.pkts[i].Idx] + ErrSum(S \ {i})

\* The channel the hop index points at.
CurrentChannel == At(hopPattern, hopIdx)

(***************************************************************************)
(* C1: a packet of a batch yields a message if and only if its bit         *)
(* reversed payload has not occurred earlier in the batch and the checksum *)
(* of that payload without its first two bytes is zero; each such packet   *)
(* yields exactly one message and every message comes from such a packet.  *)
(***************************************************************************)
MessageIffBothGates ==
    ParseReturned =>
        /\ Len(ret.msgs) = Cardinality(Decodable)
        /\ \A i \in Decodable :
            Cardinality({ k \in DOMAIN ret.msgs : ComesFrom(ret.msgs[k], i) }) = 1
        /\ \A k \in DOMAIN ret.msgs :
            \E i \in Decodable : ComesFrom(ret.msgs[k], i)

\* A batch with one packet that is decoded and one dropped for its checksum.
MessageIffBothGatesWitness ==
    /\ ParseReturned
    /\ Len(ret.msgs) = 1
    /\ \E i \in DOMAIN ret.pkts : ~ChecksumZero(i)
    /\ \E i \in DOMAIN ret.pkts : ChecksumZero(i)

(***************************************************************************)
(* C2: channelCount consecutive NextHop calls return the channels of the   *)
(* hop pattern in cyclic pattern order starting just after the starting    *)
(* index, every channel exactly once; the hop index is then back at its    *)
(* starting value and the next channelCount calls repeat the sequence.     *)
(***************************************************************************)
NextHopCyclesPattern ==
    LET n == Len(run.chans)
    IN  /\ \A k \in 1..n :
            run.chans[k] = At(hopPattern, (run.start + k) % channelCount)
        /\ n >= channelCount =>
            /\ { run.chans[k] : k \in 1..channelCount } = 0..(channelCount - 1)
            /\ \A k, l \in 1..channelCount :
                run.chans[k] = run.chans[l] => k = l
        /\ n \in {channelCount, 2 * channelCount} => hopIdx = run.start
        /\ \A k \in (channelCount + 1)..n :
            run.chans[k] = run.chans[k - channelCount]

\* Two full rounds of NextHop calls have been made.
NextHopCyclesPatternWitness ==
    /\ Len(run.chans) = 2 * channelCount
    /\ ret.op = "NextHop"
    /\ run.start = 4

(***************************************************************************)
(* C3: the hop index is always in [0, channelCount), so it is a position   *)
(* of the hop pattern, and the channel index and carrier frequency a hop   *)
(* looks up are in range.                                                  *)
(***************************************************************************)
HopIdxInRange ==
    /\ hopIdx \in 0..(channelCount - 1)
    /\ hopIdx + 1 \in DOMAIN hopPattern
    /\ At(hopPattern, hopIdx) + 1 \in DOMAIN channels
    /\ HopReturned =>
        /\ ret.hop.ChannelIdx = At(hopPattern, hopIdx)
        /\ ret.hop.ChannelIdx \in 0..(channelCount - 1)
        /\ ret.hop.ChannelFreq = At(channels, ret.hop.ChannelIdx)

\* RandHop has picked the last position after a Parse and another hop.
HopIdxInRangeWitness ==
    /\ ret.op = "RandHop"
    /\ hopIdx = channelCount - 1
    /\ calls >= 3
    /\ channelFreqErr # EmptyMap

(***************************************************************************)
(* C4: Parse updates the tracker once per decoded message and never for a  *)
(* dropped packet: after a batch that decodes k packets with errors        *)
(* d1..dk, currentFreqErr is its value before the call plus d1+...+dk and  *)
(* the entry of the current channel is that same value; a batch that       *)
(* decodes nothing changes neither.                                        *)
(***************************************************************************)
OneUpdatePerMessage ==
    ParseReturned =>
        /\ ret.updates = Len(ret.msgs)
        /\ currentFreqErr = ret.preCur + MsgErrSum(ret.msgs)
        /\ ret.msgs # << >> =>
            /\ CurrentChannel \in DOMAIN channelFreqErr
            /\ channelFreqErr[CurrentChannel] = ret.preCur + MsgErrSum(ret.msgs)
        /\ ret.msgs = << >> =>
            /\ channelFreqErr = ret.preCfe
            /\ currentFreqErr = ret.preCur

\* Two packets decoded in one batch, on top of a running error that is not 0.
OneUpdatePerMessageWitness ==
    /\ ParseReturned
    /\ Len(ret.msgs) = 2
    /\ Len(ret.pkts) = 2
    /\ ret.preCur # 0
    /\ ret.msgs[1].Idx # ret.msgs[2].Idx

(***************************************************************************)
(* C5: a hop reports, for a channel without a recorded error, the          *)
(* currentFreqErr from before the call and leaves it unchanged; for a      *)
(* channel with a recorded error, that error, which becomes                *)
(* currentFreqErr.  So a hop that resolves to a channel reports the value  *)
(* (running error before the update plus the measured error) stored by the *)
(* last update on that channel, whatever happened on other channels since. *)
(***************************************************************************)
HopReportsRecordedError ==
    HopReturned =>
        /\ ret.hop.ChannelIdx \notin DOMAIN ret.preCfe =>
            /\ ret.hop.FreqError = ret.preCur
            /\ currentFreqErr = ret.preCur
        /\ ret.hop.ChannelIdx \in DOMAIN ret.preCfe =>
            /\ ret.hop.FreqError = ret.preCfe[ret.hop.ChannelIdx]
            /\ currentFreqErr = ret.preCfe[ret.hop.ChannelIdx]
        /\ ret.hop.ChannelIdx \in DOMAIN stamp =>
            ret.hop.FreqError = stamp[ret.hop.ChannelIdx]

\* A hop back to a channel whose recorded error differs from the running
\* error, after an update on another channel.
HopReportsRecordedErrorWitness ==
    /\ HopReturned
    /\ ret.hop.ChannelIdx \in DOMAIN stamp
    /\ stamp[ret.hop.ChannelIdx] # ret.preCur
    /\ Cardinality(DOMAIN stamp) = 2

(***************************************************************************)
(* C6: of two packets of one batch with identical bit reversed payloads,   *)
(* whatever their sample indices, only the earlier one can decode: the     *)
(* result never holds two messages with the same payload, and the dropped  *)
(* duplicate causes no tracker update.                                     *)
(***************************************************************************)
DuplicateDropped ==
    ParseReturned =>
        /\ \A k, l \in DOMAIN ret.msgs :
            ret.msgs[k].Data = ret.msgs[l].Data => k = l
        /\ \A i, j \in DOMAIN ret.pkts :
            i < j /\ Payload(i) = Payload(j) =>
                Cardinality({ k \in DOMAIN ret.msgs :
                    ret.msgs[k].Data = SubSeq(Payload(j), 3, Len(Payload(j))) }) <= 1
        /\ ret.updates = Cardinality({ Payload(i) : i \in Decodable })
        /\ currentFreqErr = ret.preCur + ErrSum(Decodable)

\* The same valid payload twice in a batch, at two sample indices.
DuplicateDroppedWitness ==
    /\ ParseReturned
    /\ Len(ret.pkts) = 2
    /\ Payload(1) = Payload(2)
    /\ ret.pkts[1].Idx # ret.pkts[2].Idx
    /\ Len(ret.msgs) = 1
    /\ ret.updates = 1

(***************************************************************************)
(* C7: the messages are in the order of the packets they come from, and    *)
(* each carries the sample index of its own packet.                        *)
(***************************************************************************)
\* The positions of the decodable packets, in increasing order.
DecodableInOrder ==
    SelectSeq([i \in 1..Len(ret.pkts) |-> i], LAMBDA i : i \in Decodable)

MessagesInPacketOrder ==
    ParseReturned =>
        /\ Len(ret.msgs) = Len(DecodableInOrder)
        /\ \A k \in DOMAIN ret.msgs : ComesFrom(ret.msgs[k], DecodableInOrder[k])

\* Two messages, the first from the packet with the larger sample index.
MessagesInPacketOrderWitness ==
    /\ ParseReturned
    /\ Len(ret.msgs) = 2
    /\ ret.msgs[1].Idx > ret.msgs[2].Idx

(***************************************************************************)
(* C8, as stated: after a batch with exactly one valid packet there is     *)
(* exactly one message and the entry of the current channel equals its own *)
(* prior value (zero if the channel had no entry) plus the measured error. *)
(***************************************************************************)
\* The packets of the batch whose checksum is zero.
ValidPackets == { i \in DOMAIN ret.pkts : ChecksumZero(i) }

PriorEntry(ch) == IF ch \in DOMAIN ret.preCfe THEN ret.preCfe[ch] ELSE 0

EntryMovesByErrorFromPrior ==
    ParseReturned /\ Cardinality(ValidPackets) = 1 =>
        /\ Len(ret.msgs) = 1
        /\ CurrentChannel \in DOMAIN channelFreqErr
        /\ channelFreqErr[CurrentChannel] =
                PriorEntry(CurrentChannel) + ErrSum(ValidPackets)

(***************************************************************************)
(* C8, amended: after a batch with exactly one valid packet there is       *)
(* exactly one message and the entry of the current channel equals         *)
(* currentFreqErr from before the call plus the measured error; that is    *)
(* the entry's own prior value plus the error when the channel had an      *)
(* entry.                                                                  *)
(***************************************************************************)
EntryMovesByErrorFromCurrent ==
    ParseReturned /\ Cardinality(ValidPackets) = 1 =>
        /\ Len(ret.msgs) = 1
        /\ CurrentChannel \in DOMAIN channelFreqErr
        /\ channelFreqErr[CurrentChannel] = ret.preCur + ErrSum(ValidPackets)
        /\ CurrentChannel \in DOMAIN ret.preCfe =>
            channelFreqErr[CurrentChannel] =
                ret.preCfe[CurrentChannel] + ErrSum(ValidPackets)

\* First reception on a channel without an entry, the running error
\* carried over from another channel.
EntryMovesByErrorFromCurrentWitness ==
    /\ ParseReturned
    /\ Cardinality(ValidPackets) = 1
    /\ CurrentChannel \notin DOMAIN ret.preCfe
    /\ ret.preCur # 0

(***************************************************************************)
(* C9: SwapBitOrder is the bit reversal of a byte for all 256 values, it   *)
(* is an involution, and SwapBitOrder(0b10110000) = 0b00001101.            *)
(***************************************************************************)
SwapIsBitReversal ==
    /\ sw.n = 1 => sw.out = MirrorBits(sw.b)
    /\ sw.n = 2 => sw.out = sw.b
    /\ sw.n = 1 /\ sw.b = 176 => sw.out = 13

\* 0b10110000 swapped twice.
SwapIsBitReversalWitness ==
    /\ sw.n = 2
    /\ sw.b = 176
    /\ sw.out = 176

(***************************************************************************)
(* C10: every key of channelFreqErr is a channel index in                  *)
(* [0, channelCount), an element of the hop pattern.                       *)
(***************************************************************************)
KeysAreChannels ==
    /\ DOMAIN channelFreqErr \subseteq 0..(channelCount - 1)
    /\ \A c \in DOMAIN channelFreqErr :
        \E k \in DOMAIN hopPattern : hopPattern[k] = c

\* Entries for two channels, one of them the last channel.
KeysAreChannelsWitness ==
    /\ Cardinality(DOMAIN channelFreqErr) = 2
    /\ (channelCount - 1) \in DOMAIN channelFreqErr

(***************************************************************************)
(* C11: a packet dropped as a duplicate or for a non-zero checksum does    *)
(* not end the batch.  A call fails only at a packet that passes both      *)
(* gates and whose tail window is outside the trace; a batch of dropped    *)
(* packets alone leaves currentFreqErr and channelFreqErr as they were;    *)
(* and for every dropped packet the call has the same outcome (messages,   *)
(* currentFreqErr, channelFreqErr, failure) as the call on the batch       *)
(* without that packet from the same state.                                *)
(***************************************************************************)
\* The batch without its packet i.
Without(pkts, i) == SubSeq(pkts, 1, i - 1) \o SubSeq(pkts, i + 1, Len(pkts))

\* Packet i of the batch has its tail window within the trace.
TailInTrace(i) ==
    /\ 0 <= ret.pkts[i].Idx + 8 * SymbolLength
    /\ ret.pkts[i].Idx + 24 * SymbolLength <= Len(Discriminated)

\* What a Parse call on pkts leaves behind and returns when it starts with
\* hop index idx, running error cur and recorded errors cfe.
Outcome(pkts, idx, cur, cfe) ==
    With(ParseLoop([seen |-> {}, msgs |-> << >>, cur |-> cur, cfe |-> cfe,
                    out |-> << >>, updates |-> 0, panicked |-> FALSE],
                   pkts, 1, At(hopPattern, idx)),
         LAMBDA st : [cur |-> st.cur, cfe |-> st.cfe,
                      msgs |-> IF st.panicked THEN << >> ELSE st.msgs,
                      panicked |-> st.panicked])

ShortTailed == { i \in Decodable : ~TailInTrace(i) }

\* The first of them.
FirstShortTailed == CHOOSE i \in ShortTailed : \A j \in ShortTailed : i <= j

ShortTailIsFatal ==
    (ret.op = "Parse" /\ ShortTailed # {}) =>
        LET before == { j \in Decodable : j < FirstShortTailed }
        IN  /\ ret.panicked
            /\ ret.msgs = << >>
            /\ ret.updates = Cardinality(before)
            /\ currentFreqErr = ret.preCur + ErrSum(before)
            /\ before = {} => channelFreqErr = ret.preCfe
            /\ \A j \in DOMAIN ret.pkts :
                  j > FirstShortTailed => ret.out[j] = ret.pkts[j]

\* A batch whose first packet is decoded and whose second packet passes
\* both gates with a tail window that ends after the trace.
ShortTailIsFatalWitness ==
    /\ ret.op = "Parse"
    /\ ret.panicked
    /\ Len(ret.pkts) = 2
    /\ Decodable = {1, 2}
    /\ TailInTrace(1)
    /\ ~TailInTrace(2)
    /\ ret.updates = 1
    /\ currentFreqErr # ret.preCur

(***************************************************************************)
(* C13: every message of a returned Parse call comes from a packet of the  *)
(* batch that passes both gates; its data is the bit reversed payload of   *)
(* that packet without the first two bytes, and with b the first byte of   *)
(* that data: ID is the low four bits of b, Sensor the high four bits,     *)
(* both in 0..15, WindSpeed is the second byte and WindDirection the third.*)
(***************************************************************************)
\* Message m has the fields read from the stripped payload of packet i.
FieldsFrom(m, i) ==
    LET stripped == SubSeq(Payload(i), 3, Len(Payload(i)))
    IN  /\ m.Data = stripped
        /\ Len(m.Data) = Len(ret.pkts[i].Data) - 2
        /\ m.ID = stripped[1] % 16
        /\ m.Sensor = stripped[1] \div 16
        /\ m.ID \in 0..15
        /\ m.Sensor \in 0..15
        /\ m.ID + 16 * m.Sensor = stripped[1]
        /\ m.WindSpeed = stripped[2]
        /\ m.WindDirection = stripped[3]

MessageFieldsFromPayload ==
    ParseReturned =>
        \A k \in DOMAIN ret.msgs :
            \E i \in Decodable :
                /\ ret.msgs[k].Idx = ret.pkts[i].Idx
                /\ FieldsFrom(ret.msgs[k], i)

\* A batch decoded into two messages with different sensor codes:
\* transmitter 3, sensor 8, wind 12 from 200, and transmitter 5, sensor
\* 0xF, wind 7 from 90.
MessageFieldsFromPayloadWitness ==
    /\ ParseReturned
    /\ Len(ret.msgs) = 2
    /\ ret.msgs[1].ID = 3
    /\ ret.msgs[1].Sensor = 8
    /\ ret.msgs[1].WindSpeed = 12
    /\ ret.msgs[1].WindDirection = 200
    /\ ret.msgs[2].ID = 5
    /\ ret.msgs[2].Sensor = 15
    /\ ret.msgs[2].WindSpeed = 7
    /\ ret.msgs[2].WindDirection = 90

(***************************************************************************)
(* C14: the dwell time of a parser built with identifier id is 3000        *)
(* microseconds plus id times 62500 microseconds (held in nanoseconds),    *)
(* and no step of NextHop, RandHop or Parse changes the dwell time or the  *)
(* identifier.                                                             *)
(***************************************************************************)
DwellTimeFromID ==
    /\ [](DwellTime = (3000 + ID * 62500) * 1000)
    /\ [][DwellTime' = DwellTime /\ ID' = ID]_vars

\* The parser of transmitter 2, dwell time 128 ms, after two calls, the
\* second a Parse call that decoded a packet.
DwellTimeFromIDWitness ==
    /\ ID = 2
    /\ DwellTime = 128000000
    /\ calls = 2
    /\ ParseReturned
    /\ Len(ret.msgs) = 1

(***************************************************************************)
(* C15: String never fails and gives every code a name: the codes 2, 4, 5, *)
(* 6, 7, 8, 9, 0xA and 0xE have nine different names, every other code c   *)
(* of 0..15 has the name Unknown(0xc) with c as one upper case hex digit,  *)
(* and larger values of the byte have a name that is none of the nine; a   *)
(* packet that passes both gates with a code that has no name of its own   *)
(* yields a message with the identifier and wind fields of its payload.    *)
(***************************************************************************)
SensorNames ==
    << "Unknown(0x0)", "Unknown(0x1)", "SuperCap Voltage", "Unknown(0x3)",
       "UV Index", "Rain Rate", "Solar Radiation", "Light",
       "Temperature", "Wind Gust Speed", "Humidity", "Unknown(0xB)",
       "Unknown(0xC)", "Unknown(0xD)", "Rain", "Unknown(0xF)" >>

NamedCodes == {2, 4, 5, 6, 7, 8, 9, 10, 14}

SensorNameTotal ==
    /\ Cardinality({ At(SensorNames, c) : c \in NamedCodes }) = 9
    /\ shown.done =>
        /\ shown.text # ""
        /\ shown.s \in 0..15 => shown.text = At(SensorNames, shown.s)
        /\ shown.s \notin NamedCodes =>
              shown.text \notin { At(SensorNames, c) : c \in NamedCodes }
        /\ shown.s = 15 => shown.text = "Unknown(0xF)"
    /\ ParseReturned =>
        \A i \in Decodable :
            Payload(i)[3] \div 16 \notin NamedCodes =>
                \E k \in DOMAIN ret.msgs :
                    /\ ret.msgs[k].Idx = ret.pkts[i].Idx
                    /\ ret.msgs[k].Sensor = Payload(i)[3] \div 16
                    /\ FieldsFrom(ret.msgs[k], i)

\* The code 0xF has been given its name, and a packet with the code 0xF
\* has been decoded into a message of transmitter 5 with wind 7 from 90.
SensorNameTotalWitness ==
    /\ shown.done
    /\ shown.s = 15
    /\ shown.text = "Unknown(0xF)"
    /\ ParseReturned
    /\ Len(ret.msgs) = 1
    /\ ret.msgs[1].Sensor = 15
    /\ ret.msgs[1].ID = 5
    /\ ret.msgs[1].WindSpeed = 7
    /\ ret.msgs[1].WindDirection = 90

(***************************************************************************)
(* C16: the recorded errors change only in a Parse call that decodes a     *)
(* packet, and only at the channel the hop index points at.  A hop call    *)
(* leaves channelFreqErr as it was; a Parse call that decodes no packet    *)
(* leaves channelFreqErr and currentFreqErr as they were; a Parse call     *)
(* keeps every entry of another channel, adds no key but that of the       *)
(* current channel, and has an entry for the current channel once it has   *)
(* decoded a packet; no step removes a key or changes the map outside a    *)
(* Parse call.                                                             *)
(***************************************************************************)
\* The packets of the batch that are decoded: they pass both gates and no
\* packet up to them passes both gates with a tail window outside the trace.
Decoded ==
    { i \in Decodable : \A j \in Decodable : j <= i => TailInTrace(j) }

\* The channel the hop index pointed at when the call began.
ChannelAtCall == At(hopPattern, ret.preIdx)

EntriesChangeOnlyByDecodeState ==
    /\ HopReturned => channelFreqErr = ret.preCfe
    /\ ret.op = "Parse" =>
        /\ Decoded = {} =>
            /\ channelFreqErr = ret.preCfe
            /\ currentFreqErr = ret.preCur
        /\ Decoded # {} => ChannelAtCall \in DOMAIN channelFreqErr
        /\ DOMAIN ret.preCfe \subseteq DOMAIN channelFreqErr
        /\ DOMAIN channelFreqErr \subseteq DOMAIN ret.preCfe \cup {ChannelAtCall}
        /\ \A c \in DOMAIN ret.preCfe \ {ChannelAtCall} :
              channelFreqErr[c] = ret.preCfe[c]

EntriesChangeOnlyByDecode ==
    /\ []EntriesChangeOnlyByDecodeState
    /\ [][/\ DOMAIN channelFreqErr \subseteq DOMAIN channelFreqErr'
          /\ channelFreqErr' # channelFreqErr => ret'.op = "Parse"]_vars

\* A Parse call that adds the entry of the current channel to a map that
\* holds the entry of another channel.
EntriesChangeOnlyByDecodeWitness ==
    /\ ParseReturned
    /\ Decoded # {}
    /\ DOMAIN ret.preCfe # {}
    /\ ChannelAtCall \notin DOMAIN ret.preCfe
    /\ DOMAIN channelFreqErr = DOMAIN ret.preCfe \cup {ChannelAtCall}

(***************************************************************************)
(* C17: a Parse call leaves the hop index as it was, and every tracker     *)
(* update of the batch goes to the one channel the hop index pointed at    *)
(* when the call began: that channel's entry is the running error before   *)
(* the call plus the errors of all decoded packets, and no other entry     *)
(* appears or changes.  The hop index changes only in steps of NextHop and *)
(* RandHop.                                                                *)
(***************************************************************************)
ParseKeepsHopIdxState ==
    ret.op = "Parse" =>
        /\ hopIdx = ret.preIdx
        /\ ret.updates = Cardinality(Decoded)
        /\ Decoded # {} =>
            /\ ChannelAtCall \in DOMAIN channelFreqErr
            /\ channelFreqErr[ChannelAtCall] = ret.preCur + ErrSum(Decoded)
        /\ \A c \in DOMAIN channelFreqErr \ {ChannelAtCall} :
            /\ c \in DOMAIN ret.preCfe
            /\ channelFreqErr[c] = ret.preCfe[c]

ParseKeepsHopIdx ==
    /\ []ParseKeepsHopIdxState
    /\ [][hopIdx' # hopIdx => ret'.op \in {"NextHop", "RandHop"}]_vars

\* After an earlier call, a batch of two decoded packets whose errors, 21
\* and 33, both went to the entry of the current channel.
ParseKeepsHopIdxWitness ==
    /\ ParseReturned
    /\ calls = 2
    /\ Cardinality(Decoded) = 2
    /\ ret.updates = 2
    /\ hopIdx = ret.preIdx
    /\ DOMAIN channelFreqErr = {CurrentChannel}
    /\ channelFreqErr[CurrentChannel] = ret.preCur + 21 + 33

(***************************************************************************)
(* C18: in every reachable state, the state NewParser returns included, if *)
(* channelFreqErr has an entry for the channel the hop index points at,    *)
(* then currentFreqErr equals that entry.                                  *)
(***************************************************************************)
RunningErrorIsCurrentEntry ==
    CurrentChannel \in DOMAIN channelFreqErr =>
        currentFreqErr = channelFreqErr[CurrentChannel]

\* A hop to a channel with an entry that differs from the running error
\* before the hop.
RunningErrorIsCurrentEntryWitness ==
    /\ HopReturned
    /\ CurrentChannel \in DOMAIN channelFreqErr
    /\ channelFreqErr[CurrentChannel] # ret.preCur
    /\ currentFreqErr = channelFreqErr[CurrentChannel]

(***************************************************************************)
(* C19: the seen set starts empty at every Parse call.  A packet that      *)
(* passes both gates within its batch is decoded into a message and        *)
(* causes a tracker update also when its payload was decoded by an         *)
(* earlier Parse call: the call returns one message per such packet and    *)
(* moves currentFreqErr by the sum of their errors.                        *)
(***************************************************************************)
\* The packets that pass both gates and whose payload an earlier call decoded.
DecodedBefore == { i \in Decodable : Payload(i) \in earlier }

SeenIsPerCall ==
    (ParseReturned /\ DecodedBefore # {}) =>
        /\ \A i \in DecodedBefore :
              \E k \in DOMAIN ret.msgs : ComesFrom(ret.msgs[k], i)
        /\ Len(ret.msgs) = Cardinality(Decodable)
        /\ ret.updates = Cardinality(Decodable)
        /\ currentFreqErr = ret.preCur + ErrSum(Decodable)
        /\ channelFreqErr[CurrentChannel] = currentFreqErr

\* A payload decoded by an earlier call is decoded again, with a message
\* and a move of the running error by 21.
SeenIsPerCallWitness ==
    /\ ParseReturned
    /\ DecodedBefore = {1}
    /\ Len(ret.msgs) = 1
    /\ ComesFrom(ret.msgs[1], 1)
    /\ ret.updates = 1
    /\ currentFreqErr = ret.preCur + 21

(***************************************************************************)
(* C20: after a Parse call has returned, every packet of the batch,        *)
(* decoded or dropped, has its payload bytes bit reversed once: each byte  *)
(* is the mirror image of the byte that was there before the call, and     *)
(* mirroring it again gives that byte back; the payload has the length it  *)
(* had and the packet the sample index it had; the data of every message   *)
(* equals the reversed payload of its packet from the third byte on.       *)
(***************************************************************************)
\* The packet, of those that pass both gates, that message k comes from.
SourceOf(k) ==
    CHOOSE i \in Decodable : Cardinality({ j \in Decodable : j < i }) = k - 1

====
